---- MODULE Spec2Model ----
(***************************************************************************)
(* A model of src/src/App.tsx: the folder-selection handler, the output    *)
(* name field and the asynchronous conversion handler of the Excel-to-CSV  *)
(* converter.                                                              *)
(*                                                                         *)
(* Strings the code takes apart (paths, file names, sheet names, the       *)
(* output folder name) are sequences of one-character strings, so that     *)
(* split, join, trim, toLowerCase, endsWith and String.prototype.replace   *)
(* are computed as JavaScript computes them. Messages that are only        *)
(* stored are TLA+ strings.                                                *)
(***************************************************************************)
EXTENDS Integers, Sequences, FiniteSets, TLC

(***************************************************************************)
(* Bounds of the model.                                                    *)
(***************************************************************************)
\* Longest file list of the progress family (SpecRun).
MaxN == 201
\* Longest file list drawn from the file universe of the path family.
MaxFiles == 2
\* Archives delivered before the model stops starting runs.
MaxSaves == 2

Null == "null"

(***************************************************************************)
(* String helpers.                                                         *)
(***************************************************************************)
UpperChars == <<"A","B","C","D","E","F","G","H","I","J","K","L","M",
                "N","O","P","Q","R","S","T","U","V","W","X","Y","Z">>
LowerChars == <<"a","b","c","d","e","f","g","h","i","j","k","l","m",
                "n","o","p","q","r","s","t","u","v","w","x","y","z">>

\* String.prototype.toLowerCase, one character.
LowerChar(c) ==
  IF \E k \in 1..26 : UpperChars[k] = c
  THEN LowerChars[CHOOSE k \in 1..26 : UpperChars[k] = c]
  ELSE c

\* String.prototype.toLowerCase.
ToLowerCase(s) == [k \in 1..Len(s) |-> LowerChar(s[k])]

\* String.prototype.endsWith.
EndsWith(s, suf) ==
  /\ Len(suf) <= Len(s)
  /\ SubSeq(s, Len(s) - Len(suf) + 1, Len(s)) = suf

WhiteSpace == {" ", "\t", "\n"}

\* String.prototype.trim: white space removed at both ends.
Trim(s) ==
  LET keep == {k \in 1..Len(s) : s[k] \notin WhiteSpace}
  IN  IF keep = {} THEN << >>
      ELSE LET lo == CHOOSE k \in keep : \A j \in keep : k <= j
               hi == CHOOSE k \in keep : \A j \in keep : k >= j
           IN  SubSeq(s, lo, hi)

\* String.prototype.split('/'): the segments between the slashes (an empty
\* string splits into one empty segment).
RECURSIVE SplitFrom(_, _, _)
SplitFrom(s, k, cur) ==
  IF k > Len(s) THEN <<cur>>
  ELSE IF s[k] = "/" THEN <<cur>> \o SplitFrom(s, k + 1, << >>)
  ELSE SplitFrom(s, k + 1, Append(cur, s[k]))

Split(s) == SplitFrom(s, 1, << >>)

\* Array.prototype.join('/').
RECURSIVE Join(_)
Join(parts) ==
  IF Len(parts) = 0 THEN << >>
  ELSE IF Len(parts) = 1 THEN parts[1]
  ELSE parts[1] \o <<"/">> \o Join(Tail(parts))

(***************************************************************************)
(* String.prototype.replace(/\.[^/.]+$/, replacement) with a string        *)
(* replacement.                                                            *)
(***************************************************************************)
\* Where /\.[^/.]+$/ matches in s: the index of a dot that is followed, up to
\* the end of the string, by at least one character, none of them a slash or
\* a dot. 0 when the pattern does not match.
ExtMatchStart(s) ==
  LET ok == {p \in 1..Len(s) :
               /\ s[p] = "."
               /\ p < Len(s)
               /\ \A q \in (p + 1)..Len(s) : s[q] \notin {"/", "."}}
  IN  IF ok = {} THEN 0 ELSE CHOOSE p \in ok : \A q \in ok : p <= q

\* The grave accent character (written by name: a grave accent opens a
\* quotation in TLA+ text).
Grave == "grave"

\* GetSubstitution for a pattern without capture groups: $$ is a dollar sign,
\* $& the matched text, $` the text before the match, $' the text after it;
\* any other character, a dollar sign included, stands for itself.
RECURSIVE GetSubstitution(_, _, _, _, _)
GetSubstitution(repl, k, matched, before, after) ==
  IF k > Len(repl) THEN << >>
  ELSE IF repl[k] = "$" /\ k < Len(repl) /\ repl[k + 1] \in {"$", "&", Grave, "'"}
  THEN (CASE repl[k + 1] = "$" -> <<"$">>
          [] repl[k + 1] = "&" -> matched
          [] repl[k + 1] = Grave -> before
          [] repl[k + 1] = "'" -> after)
       \o GetSubstitution(repl, k + 2, matched, before, after)
  ELSE <<repl[k]>> \o GetSubstitution(repl, k + 1, matched, before, after)

\* s.replace(/\.[^/.]+$/, repl): s itself when the pattern does not match.
ReplaceExt(s, repl) ==
  LET p == ExtMatchStart(s)
  IN  IF p = 0 THEN s
      ELSE LET before  == SubSeq(s, 1, p - 1)
               matched == SubSeq(s, p, Len(s))
           IN  before \o GetSubstitution(repl, 1, matched, before, << >>)

(***************************************************************************)
(* Math.round(((i + 1) / files.length) * 100) in IEEE 754 double           *)
(* arithmetic (round to nearest, ties to even). A number is held as the    *)
(* digits <<I, d1, d2, d3, d4>> and a shift s: I is its integer part, d1   *)
(* to d4 its 52 fraction bits in four digits of 13 bits, and its value is  *)
(* (I + 0.d1d2d3d4) / 2^s.                                                 *)
(***************************************************************************)
\* 2^13: one digit of the fraction.
DigitBase == 8192

RECURSIVE Pow2(_)
Pow2(s) == IF s = 0 THEN 1 ELSE 2 * Pow2(s - 1)

\* The least s with k * 2^s >= n.
RECURSIVE LeadShift(_, _)
LeadShift(k, n) == IF k >= n THEN 0 ELSE 1 + LeadShift(2 * k, n)

\* digits plus one unit of the digit at position pos, carried upwards.
AddUnit(digits, pos) ==
  LET stop == CHOOSE j \in 1..pos :
                /\ j = 1 \/ digits[j] # DigitBase - 1
                /\ \A h \in (j + 1)..pos : digits[h] = DigitBase - 1
  IN  [j \in 1..Len(digits) |->
         IF j < stop THEN digits[j]
         ELSE IF j = stop THEN digits[j] + 1
         ELSE IF j <= pos THEN 0
         ELSE digits[j]]

\* The double nearest to k / n, for 1 <= k <= n: 53 quotient bits by long
\* division, rounded on the bit after them and on the remainder.
DoubleDiv(k, n) ==
  LET s  == LeadShift(k, n)
      r0 == k * Pow2(s) - n
      d1 == (r0 * DigitBase) \div n
      r1 == (r0 * DigitBase) % n
      d2 == (r1 * DigitBase) \div n
      r2 == (r1 * DigitBase) % n
      d3 == (r2 * DigitBase) \div n
      r3 == (r2 * DigitBase) % n
      d4 == (r3 * DigitBase) \div n
      r4 == (r3 * DigitBase) % n
      guard  == (2 * r4) \div n
      sticky == (2 * r4) % n # 0
      up     == guard = 1 /\ (sticky \/ d4 % 2 = 1)
      q      == <<1, d1, d2, d3, d4>>
  IN  [s |-> s, digits |-> IF up THEN AddUnit(q, 5) ELSE q]

\* The double nearest to x * 100: the exact product, rounded to 53
\* significant bits (its integer part has 7 or 8 of them, so 6 or 7 bits of
\* the last digit are rounded away).
DoubleTimes100(x) ==
  LET t4 == 100 * x.digits[5]
      t3 == 100 * x.digits[4] + t4 \div DigitBase
      t2 == 100 * x.digits[3] + t3 \div DigitBase
      t1 == 100 * x.digits[2] + t2 \div DigitBase
      I  == 100 * x.digits[1] + t1 \div DigitBase
      o4 == t4 % DigitBase
      D    == IF I >= 128 THEN 128 ELSE 64
      low  == o4 % D
      kept == o4 - low
      up   == low > D \div 2 \/ (low = D \div 2 /\ (o4 \div D) % 2 = 1)
      p    == <<I, t1 % DigitBase, t2 % DigitBase, t3 % DigitBase, kept>>
  IN  [s |-> x.s,
       digits |-> IF ~up THEN p
                  ELSE IF kept + D < DigitBase THEN [p EXCEPT ![5] = kept + D]
                  ELSE AddUnit([p EXCEPT ![5] = 0], 4)]

\* Math.floor in the place of Math.round.
MathFloor(x) == x.digits[1] \div Pow2(x.s)

\* Math.round of a double x > 0: the nearest integer, a tie going up, which
\* is the integer part plus the first bit of the fraction.
MathRound(x) ==
  LET int  == x.digits[1] \div Pow2(x.s)
      half == IF x.s >= 1 THEN (x.digits[1] \div Pow2(x.s - 1)) % 2
              ELSE x.digits[2] \div (DigitBase \div 2)
  IN  int + half

\* Math.round((k / n) * 100) for 0 <= k <= n, n >= 1.
JsRoundPercent(k, n) ==
  IF k = 0 THEN 0 ELSE MathRound(DoubleTimes100(DoubleDiv(k, n)))

(***************************************************************************)
(* Files, workbooks and the inputs the model draws.                        *)
(***************************************************************************)
\* What XLSX.read makes of a file's bytes: a workbook with its sheet names in
\* stored order, or an exception with a message (possibly empty).
Workbook(names) == [ok |-> TRUE, SheetNames |-> names, message |-> ""]
Corrupt(msg) == [ok |-> FALSE, SheetNames |-> << >>, message |-> msg]

\* A File of the selected directory: its path relative to the selection
\* (root folder first), its name (the last segment) and its content.
File(path, wb) ==
  [webkitRelativePath |-> path,
   name |-> Split(path)[Len(Split(path))],
   workbook |-> wb]

\* Sheet names.
Sheet1 == <<"S","h","e","e","t","1">>
Sheet2 == <<"S","h","e","e","t","2">>
SheetX == <<"x">>
SheetY == <<"y">>
\* "$": a sheet named by one dollar sign; "$$": by two; "$&": dollar, ampersand.
SheetDollar == <<"$">>
SheetDollar2 == <<"$","$">>
SheetDollarAmp == <<"$","&">>

\* File endings.
ExtXlsx == <<".","x","l","s","x">>
ExtXls == <<".","x","l","s">>
ExtCsv == <<".","c","s","v">>
ExtZip == <<".","z","i","p">>
SuffixCsv == <<"_","c","s","v">>

\* Error messages of the handler.
MsgSelect == "Please select a folder containing Excel files first."
MsgName == "Please provide an output folder name."
MsgFallback == "An error occurred during conversion."
MsgParse == "File is password-protected"
MsgZip == "Out of memory"

\* The output folder name before any selection (useState('converted_csvs')).
DefaultName == <<"c","o","n","v","e","r","t","e","d","_","c","s","v","s">>

\* What the user may type into the output folder name field.
NameOut == <<"o","u","t">>
NamePadded == <<" ","z","i","p"," ">>
NameBlank == <<" "," ">>
TypedNames == {NameOut, NamePadded, NameBlank}

\* Directory trees the user may select (every file of the tree, in order).
\* A: a single-sheet workbook in a subfolder, a text file, and a two-sheet
\* workbook with an upper-case extension.
FolderA ==
  << File(<<"A","/","B","/","r","e","p","o","r","t",".","x","l","s","x">>, Workbook(<<Sheet1>>)),
     File(<<"A","/","n","o","t","e","s",".","t","x","t">>, Corrupt("")),
     File(<<"A","/","d","a","t","a",".","X","L","S","X">>, Workbook(<<Sheet1, Sheet2>>)) >>
\* B: three spreadsheets, the second of which cannot be decoded.
FolderB ==
  << File(<<"B","/","a",".","x","l","s","x">>, Workbook(<<Sheet1>>)),
     File(<<"B","/","b","a","d",".","x","l","s">>, Corrupt(MsgParse)),
     File(<<"B","/","c",".","x","l","s","x">>, Workbook(<<Sheet1>>)) >>
\* C: no spreadsheet at all.
FolderC ==
  << File(<<"C","/","r","e","a","d","m","e",".","t","x","t">>, Corrupt("")) >>
\* D: one spreadsheet, which fails to decode with an empty message.
FolderD ==
  << File(<<"D","/","x",".","x","l","s">>, Corrupt("")) >>

Selections == {FolderA, FolderB, FolderC, FolderD}

\* The file universe of the path family: four paths of one folder, each with
\* any of these contents.
UniversePaths ==
  { <<"A","/","B","/","r","e","p","o","r","t",".","x","l","s","x">>,
    <<"A","/","d","a","t","a",".","x","l","s","x">>,
    <<"A","/","d","a","t","a",".","x","l","s">>,
    <<"A","/","d","a","t","a","_","x",".","x","l","s","x">> }
UniverseWorkbooks ==
  { Workbook(<<Sheet1>>), Workbook(<<Sheet1, Sheet2>>),
    Workbook(<<SheetX, SheetY>>), Workbook(<<SheetDollar, SheetDollar2>>),
    Workbook(<<SheetX, SheetDollarAmp>>), Corrupt(MsgParse) }
Universe == {File(p, wb) : p \in UniversePaths, wb \in UniverseWorkbooks}

\* File lists of at most MaxFiles files of the universe, their paths pairwise
\* distinct (a directory holds one file per path).
RECURSIVE ListsUpTo(_)
ListsUpTo(n) ==
  IF n = 0 THEN {<< >>}
  ELSE LET shorter == ListsUpTo(n - 1)
       IN  shorter \cup
           {Append(l, f) : l \in {x \in shorter : Len(x) = n - 1}, f \in Universe}
PathFamily ==
  {l \in ListsUpTo(MaxFiles) :
     \A a, b \in 1..Len(l) :
        a # b => l[a].webkitRelativePath # l[b].webkitRelativePath}

\* The progress family: for every n up to MaxN, the list of n single-sheet
\* workbooks A/f1.xls .. A/f<n>.xls.
DigitChars == <<"0","1","2","3","4","5","6","7","8","9">>
RECURSIVE Decimal(_)
Decimal(k) ==
  IF k < 10 THEN <<DigitChars[k + 1]>>
  ELSE Append(Decimal(k \div 10), DigitChars[(k % 10) + 1])
NumberedFile(k) ==
  File(<<"A","/","f">> \o Decimal(k) \o ExtXls, Workbook(<<Sheet1>>))
ProgressFamily == {[k \in 1..n |-> NumberedFile(k)] : n \in 1..MaxN}

RunNames == {NameOut, NameBlank}

(***************************************************************************)
(* The state: the component's useState cells, the file input's FileList,   *)
(* the handleConvert calls suspended at an await, and what saveAs was last  *)
(* given.                                                                  *)
(***************************************************************************)
VARIABLES
  files,             \* useState<File[]>([])
  outputFolderName,  \* useState('converted_csvs')
  isConverting,      \* useState(false)
  progress,          \* useState(0)
  error,             \* useState<string | null>(null)
  success,           \* useState(false)
  inputFiles,        \* the file input's FileList (event.target.files)
  runs,              \* the handleConvert calls in flight, oldest first
  saved,             \* the arguments of the last saveAs call, if any:
                     \* << >> or <<[name, zip]>>
  nSaved,            \* how many times saveAs was called
  sinceSelect        \* history: a folder was selected and handleConvert has
                     \* not been invoked since

vars == <<files, outputFolderName, isConverting, progress, error, success,
          inputFiles, runs, saved, nSaved, sinceSelect>>

\* The state after construction (the useState initial values).
Init ==
  /\ files = << >>
  /\ outputFolderName = DefaultName
  /\ isConverting = FALSE
  /\ progress = 0
  /\ error = Null
  /\ success = FALSE
  /\ inputFiles = << >>
  /\ runs = << >>
  /\ saved = << >>
  /\ nSaved = 0
  /\ sinceSelect = FALSE

(***************************************************************************)
(* handleFolderSelect.                                                     *)
(***************************************************************************)
\* The filter of handleFolderSelect: the name, lower-cased, ends in .xlsx or
\* .xls.
IsExcel(file) ==
  LET name == ToLowerCase(file.name)
  IN  EndsWith(name, ExtXlsx) \/ EndsWith(name, ExtXls)

ExcelFiles(selectedFiles) == SelectSeq(selectedFiles, IsExcel)

\* The default output folder name after a selection: <root folder>_csv when
\* there is an Excel file and its first path segment is not empty.
DefaultOutputName(excelFiles, current) ==
  IF Len(excelFiles) > 0
  THEN LET rootFolder == Split(excelFiles[1].webkitRelativePath)[1]
       IN  IF rootFolder # << >> THEN rootFolder \o SuffixCsv ELSE current
  ELSE current

HandleFolderSelect(selectedFiles) ==
  IF selectedFiles = Null THEN UNCHANGED vars
  ELSE LET excelFiles == ExcelFiles(selectedFiles)
       IN  /\ inputFiles' = selectedFiles
           /\ files' = excelFiles
           /\ error' = Null
           /\ success' = FALSE
           /\ progress' = 0
           /\ outputFolderName' = DefaultOutputName(excelFiles, outputFolderName)
           /\ sinceSelect' = TRUE
           /\ UNCHANGED <<isConverting, runs, saved, nSaved>>

(***************************************************************************)
(* The output folder name field.                                           *)
(***************************************************************************)
SetOutputFolderName(value) ==
  /\ outputFolderName' = value
  /\ UNCHANGED <<files, isConverting, progress, error, success, inputFiles,
                 runs, saved, nSaved, sinceSelect>>

(***************************************************************************)
(* handleConvert. Its body runs in three kinds of steps: from the call to  *)
(* the first await, from one resolved file.arrayBuffer() to the next await,*)
(* and from the resolved zip.generateAsync() to the end. Between them any  *)
(* other handler may run. A call in flight holds the files and the         *)
(* outputFolderName of the render it was made in (its closure), its loop   *)
(* index i, its JSZip and the await it is suspended at.                    *)
(***************************************************************************)
\* A Convert button that is not disabled during a run.
ConvertAlwaysEnabled == TRUE

\* The handler is invoked while no run is in progress: the Convert button is
\* disabled while isConverting.
ConvertEnabled == ~isConverting

\* A name check without trim.
NameMissingUntrimmed(name) == name = << >>

\* !outputFolderName.trim()
NameMissing(name) == Trim(name) = << >>

HandleConvert ==
  /\ ConvertEnabled
  /\ nSaved < MaxSaves
  /\ sinceSelect' = FALSE
  /\ IF Len(files) = 0
     THEN /\ error' = MsgSelect
          /\ UNCHANGED <<files, outputFolderName, isConverting, progress,
                         success, inputFiles, runs, saved, nSaved>>
     ELSE IF NameMissing(outputFolderName)
     THEN /\ error' = MsgName
          /\ UNCHANGED <<files, outputFolderName, isConverting, progress,
                         success, inputFiles, runs, saved, nSaved>>
     ELSE /\ isConverting' = TRUE
          /\ error' = Null
          /\ success' = FALSE
          /\ progress' = 0
          /\ runs' = Append(runs, [files |-> files,
                                   outputFolderName |-> outputFolderName,
                                   i |-> 0,
                                   zip |-> {},
                                   pc |-> "read"])
          /\ UNCHANGED <<files, outputFolderName, inputFiles, saved, nSaved>>

\* The root folder name read from the current state instead of the closure.
RootNameLive(run) == Trim(outputFolderName)

\* The root folder name a run writes: the outputFolderName of its closure,
\* trimmed.
RootName(run) == Trim(run.outputFolderName)

\* newPathBase: the file's path with segment 0 replaced by the root name.
NewPathBase(file, root) ==
  Join([Split(file.webkitRelativePath) EXCEPT ![1] = root])

\* The path of the CSV of a single-sheet workbook.
NewPathCsv(file, root) == ReplaceExt(NewPathBase(file, root), ExtCsv)

\* The path of the CSV of one sheet of a workbook with several sheets.
NewPathCsvSheet(file, root, sheetName) ==
  ReplaceExt(NewPathBase(file, root), <<"_">> \o sheetName \o ExtCsv)

\* XLSX.utils.sheet_to_csv of one sheet: the text is not modelled, only which
\* sheet of which file it is the text of.
SheetToCsv(file, sheetName) ==
  [file |-> file.webkitRelativePath, sheet |-> sheetName]

\* zip.file(path, csv): an entry of that path is replaced.
ZipFile(zip, path, csv) ==
  {e \in zip : e.path # path} \cup {[path |-> path, csv |-> csv]}

\* The zip.file calls for the sheets from the k-th on, in sheet order.
RECURSIVE AddSheets(_, _, _, _)
AddSheets(zip, file, root, k) ==
  IF k > Len(file.workbook.SheetNames) THEN zip
  ELSE LET sheetName == file.workbook.SheetNames[k]
       IN  AddSheets(ZipFile(zip, NewPathCsvSheet(file, root, sheetName),
                             SheetToCsv(file, sheetName)),
                     file, root, k + 1)

\* The zip after the entries of one decoded file are added.
AddFile(zip, file, root) ==
  IF Len(file.workbook.SheetNames) = 1
  THEN ZipFile(zip, NewPathCsv(file, root),
               SheetToCsv(file, file.workbook.SheetNames[1]))
  ELSE AddSheets(zip, file, root, 1)

\* The progress computed from i instead of i + 1.
ProgressAfterOffByOne(i, n) == JsRoundPercent(i, n)

\* The progress set after the file of loop index i.
ProgressAfter(i, n) == JsRoundPercent(i + 1, n)

\* err.message || 'An error occurred during conversion.'
ErrorText(message) == IF message = "" THEN MsgFallback ELSE message

RemoveRun(j) == SubSeq(runs, 1, j - 1) \o SubSeq(runs, j + 1, Len(runs))

\* catch and finally: the run ends with an error.
Fail(j, message) ==
  /\ error' = ErrorText(message)
  /\ isConverting' = FALSE
  /\ runs' = RemoveRun(j)
  /\ UNCHANGED <<files, outputFolderName, progress, success, inputFiles,
                 saved, nSaved, sinceSelect>>

\* file.arrayBuffer() resolved and XLSX.read decoded the file: its entries
\* are added, the progress is set and the loop goes on to the next await.
ReadDecoded(j) ==
  LET run  == runs[j]
      file == run.files[run.i + 1]
      n    == Len(run.files)
  IN  /\ file.workbook.ok
      /\ progress' = ProgressAfter(run.i, n)
      /\ runs' = [runs EXCEPT ![j] =
                    [run EXCEPT !.zip = AddFile(run.zip, file, RootName(run)),
                                !.i = run.i + 1,
                                !.pc = IF run.i + 1 < n THEN "read"
                                       ELSE "generate"]]
      /\ UNCHANGED <<files, outputFolderName, isConverting, error, success,
                     inputFiles, saved, nSaved, sinceSelect>>

\* A catch inside the loop: the file is skipped and the run goes on.
ReadFailedSkip(j) ==
  LET run  == runs[j]
      file == run.files[run.i + 1]
      n    == Len(run.files)
  IN  /\ ~file.workbook.ok
      /\ error' = ErrorText(file.workbook.message)
      /\ runs' = [runs EXCEPT ![j] =
                    [run EXCEPT !.i = run.i + 1,
                                !.pc = IF run.i + 1 < n THEN "read"
                                       ELSE "generate"]]
      /\ UNCHANGED <<files, outputFolderName, isConverting, progress, success,
                     inputFiles, saved, nSaved, sinceSelect>>

\* XLSX.read threw.
ReadFailed(j) ==
  LET run  == runs[j]
      file == run.files[run.i + 1]
  IN  /\ ~file.workbook.ok
      /\ Fail(j, file.workbook.message)

ReadStep(j) ==
  /\ runs[j].pc = "read"
  /\ (ReadDecoded(j) \/ ReadFailed(j))

\* zip.generateAsync() resolved: saveAs, setSuccess(true), finally.
Deliver(j) ==
  LET run == runs[j]
  IN  /\ saved' = <<[name |-> RootName(run) \o ExtZip, zip |-> run.zip]>>
      /\ nSaved' = nSaved + 1
      /\ success' = TRUE
      /\ isConverting' = FALSE
      /\ runs' = RemoveRun(j)
      /\ UNCHANGED <<files, outputFolderName, progress, error, inputFiles,
                     sinceSelect>>

GenerateStep(j) ==
  /\ runs[j].pc = "generate"
  /\ (Deliver(j) \/ Fail(j, MsgZip))

(***************************************************************************)
(* The specifications.                                                     *)
(***************************************************************************)
\* The component in use: selections, edits of the name field, conversions.
Next ==
  \/ \E selectedFiles \in Selections : HandleFolderSelect(selectedFiles)
  \/ \E value \in TypedNames : SetOutputFolderName(value)
  \/ HandleConvert
  \/ \E j \in 1..Len(runs) : ReadStep(j)
  \/ \E j \in 1..Len(runs) : GenerateStep(j)

Spec == Init /\ [][Next]_vars

\* handleConvert alone, on a file list and a name drawn from the families: no
\* other handler runs.
InitRun ==
  /\ files \in PathFamily \cup ProgressFamily
  /\ outputFolderName \in RunNames
  /\ isConverting = FALSE
  /\ progress = 0
  /\ error = Null
  /\ success = FALSE
  /\ inputFiles = files
  /\ runs = << >>
  /\ saved = << >>
  /\ nSaved = 0
  /\ sinceSelect = TRUE

NextRun ==
  \/ HandleConvert
  \/ \E j \in 1..Len(runs) : ReadStep(j)
  \/ \E j \in 1..Len(runs) : GenerateStep(j)

SpecRun == InitRun /\ [][NextRun]_vars

(***************************************************************************)
(* Properties.                                                             *)
(***************************************************************************)
\* The step in which run j decodes a file and goes on: its index grows.
Decoded(j) ==
  /\ j <= Len(runs')
  /\ Len(runs') = Len(runs)
  /\ runs'[j].i = runs[j].i + 1

\* The step in which run j ends: it is no longer in flight.
Ended(j) == runs' = RemoveRun(j)

\* C1: in a run that no other handler interleaves, every progress value set
\* after a decoded file is an integer from 0 to 100 and not below the value
\* before it, and the value set after the last file is 100.
C1_ProgressMonotoneTo100 ==
  [][\A j \in 1..Len(runs) :
       Decoded(j) =>
         /\ progress' \in 0..100
         /\ progress' >= progress
         /\ (runs'[j].i = Len(runs[j].files) => progress' = 100)]_vars

\* A run over seven files has decoded them all: the progress went through
\* rounded values and stands at 100.
C1_Witness ==
  /\ Len(runs) = 1
  /\ Len(runs[1].files) = 7
  /\ runs[1].pc = "generate"
  /\ progress = 100

\* The first file of run j is decoded in this step.
FirstDecoded(j) == Decoded(j) /\ runs[j].i = 0

\* C2 as stated: the progress set after the first file is above 0, whatever
\* the length of the file list.
C2_FirstProgressPositive ==
  [][\A j \in 1..Len(runs) : FirstDecoded(j) => progress' > 0]_vars

\* C2 amended: the progress set after the first file is above 0 for a list of
\* at most 200 files, and 0 for a longer one (100 / n is below one half).
C2_FirstProgressPositiveUpTo200 ==
  [][\A j \in 1..Len(runs) :
       FirstDecoded(j) =>
         IF Len(runs[j].files) <= 200 THEN progress' > 0 ELSE progress' = 0]_vars

\* The first of 200 files is decoded and the progress is 1.
C2_Witness ==
  /\ Len(runs) = 1
  /\ Len(runs[1].files) = 200
  /\ runs[1].i = 1
  /\ progress = 1

\* The progress a run has last set when k of its n files are decoded.
Emitted(k, n) == IF k = 0 THEN 0 ELSE JsRoundPercent(k, n)

\* The file run j is waiting for cannot be decoded, and the run takes its
\* step.
DecodeFails(j) ==
  /\ runs[j].pc = "read"
  /\ ~runs[j].files[runs[j].i + 1].workbook.ok
  /\ (Len(runs') # Len(runs) \/ runs'[j] # runs[j])

NoSpreadsheet(selectedFiles) ==
  \A k \in 1..Len(selectedFiles) : ~IsExcel(selectedFiles[k])

\* C4: handleConvert invoked with an empty file list, or with a name that is
\* empty after trimming, starts no run (isConverting stays false, no call is
\* in flight), saves nothing, leaves the progress alone and sets the error to
\* the validation message of the failed check; and a selection without a
\* spreadsheet leaves the file list empty.
C4_ValidationStartsNoRun ==
  [][/\ (HandleConvert /\ (Len(files) = 0 \/ Trim(outputFolderName) = << >>)) =>
          /\ isConverting' = FALSE
          /\ runs' = runs
          /\ runs' = << >>
          /\ saved' = saved
          /\ nSaved' = nSaved
          /\ progress' = progress
          /\ success' = success
          /\ error' = IF Len(files) = 0 THEN MsgSelect ELSE MsgName
     /\ (NoSpreadsheet(inputFiles') => files' = << >>)]_vars

\* Folder C, which holds no spreadsheet, was selected and handleConvert was
\* invoked: the file list is empty and the error is the validation message.
C4_Witness ==
  /\ inputFiles = FolderC
  /\ files = << >>
  /\ error = MsgSelect
  /\ ~isConverting
  /\ runs = << >>
  /\ ~sinceSelect
  /\ nSaved = 0

\* The paths of the entries of a zip.
Paths(zip) == {e.path : e \in zip}

\* leaf without its extension: what stands before its last dot.
Stem(leaf) ==
  LET dots == {k \in 1..Len(leaf) : leaf[k] = "."}
  IN  IF dots = {} THEN leaf
      ELSE SubSeq(leaf, 1, (CHOOSE k \in dots : \A h \in dots : h <= k) - 1)

\* R/d1/../dm/<stem><suffix> for the path r/d1/../dm/leaf.ext.
Rewritten(path, R, suffix) ==
  LET segs == Split(path)
  IN  Join(<<R>> \o SubSeq(segs, 2, Len(segs) - 1)
                 \o <<Stem(segs[Len(segs)]) \o suffix>>)

\* The entries C5 states for one decoded file: leaf.csv for one sheet,
\* leaf_<sheet>.csv per sheet for several.
StatedEntries(file, R) ==
  LET names == file.workbook.SheetNames
  IN  IF Len(names) = 1
      THEN {[path |-> Rewritten(file.webkitRelativePath, R, ExtCsv),
             csv |-> SheetToCsv(file, names[1])]}
      ELSE {[path |-> Rewritten(file.webkitRelativePath, R,
                                <<"_">> \o names[k] \o ExtCsv),
             csv |-> SheetToCsv(file, names[k])] : k \in 1..Len(names)}

\* C5: the entries a run adds for a decoded file are exactly the stated
\* ones: R/d1/../dm/leaf.csv for a workbook of one sheet, and
\* R/d1/../dm/leaf_<sheet>.csv for each sheet of a workbook of several.
C5_EntriesAsStated ==
  [][\A j \in 1..Len(runs) :
       Decoded(j) =>
         LET file   == runs[j].files[runs[j].i + 1]
             stated == StatedEntries(file, Trim(runs[j].outputFolderName))
         IN  /\ stated \subseteq runs'[j].zip
             /\ Paths(runs'[j].zip) = Paths(runs[j].zip) \cup Paths(stated)]_vars

\* The number of entries due for the first k files of a list: one per sheet
\* of a workbook of several sheets, one per workbook of a single sheet.
RECURSIVE EntriesDue(_, _)
EntriesDue(list, k) ==
  IF k = 0 THEN 0
  ELSE EntriesDue(list, k - 1) + Len(list[k].workbook.SheetNames)

\* C6: no entry of a run's archive is overwritten: the archive of a run in
\* flight holds one entry per sheet of the files decoded so far, and a saved
\* archive one entry per sheet of the file list.
C6_NoEntryOverwritten ==
  /\ \A j \in 1..Len(runs) :
       Cardinality(runs[j].zip) = EntriesDue(runs[j].files, runs[j].i)
  /\ \A k \in 1..Len(saved) :
       Cardinality(saved[k].zip) = EntriesDue(files, Len(files))

\* C7: whenever no run is in progress the error and the success flag are not
\* both set, and a run that ends leaves one of them set.
C7_ExactlyOneOutcome ==
  [][/\ ~isConverting' => ~(error' # Null /\ success')
     /\ (isConverting /\ ~isConverting') => (error' # Null \/ success')]_vars

\* The archive of a whole file list under a root name: the files' entries
\* added in input order, from the k-th file on.
RECURSIVE ArchiveFrom(_, _, _, _)
ArchiveFrom(zip, list, R, k) ==
  IF k > Len(list) THEN zip
  ELSE ArchiveFrom(AddFile(zip, list[k], R), list, R, k + 1)

C9_SelectionResetsRun ==
  [][sinceSelect' =>
       /\ progress' = 0
       /\ success' = FALSE
       /\ error' = Null
       /\ (sinceSelect => nSaved' = nSaved)]_vars

\* C10: at most one handleConvert call is in flight, and isConverting is true
\* exactly while one is.
C10_OneRunAtATime ==
  /\ Len(runs) <= 1
  /\ isConverting <=> Len(runs) = 1

\* A run is in flight past its first file.
C10_Witness ==
  /\ isConverting
  /\ Len(runs) = 1
  /\ runs[1].i >= 1
  /\ runs[1].pc = "read"

====
